---- MODULE Spec2Model ----
(***************************************************************************)
(* Student Finance Tracker: the record store (SCRIPTS/state.js), the       *)
(* application state and its form handlers (scripts/state.js, ui.js), the  *)
(* validators (SCRIPTS/validators.js, SCRIPTS/storage.js) and the regex    *)
(* search (SCRIPTS/search.js).                                             *)
(*                                                                         *)
(* Text is a sequence of one-character strings, so that trimming, regex    *)
(* tests and number formatting are computed character by character.        *)
(* A number is an integer count of thousandths (12.5 is 12500).            *)
(***************************************************************************)
EXTENDS Integers, Sequences, FiniteSets, TLC

VARIABLES
    records,        \* SCRIPTS/state.js: let records
    durable,        \* the storage collaborator's copy written by storage.save
    state,          \* scripts/state.js: let state = {transactions, settings, currentEditId}
    localStorage,   \* window.localStorage: key -> JSON text
    now,            \* the clock read by Date.now() / new Date()
    lastOp,         \* the last call made and what it returned
    sPattern,       \* search.js: the pattern text given to compileRegex
    sCaseSensitive, \* search.js: the caseSensitive argument
    sTransactions,  \* search.js: the transactions argument of searchTransactions
    sRegex,         \* search.js: the RegExp object (with its lastIndex) or null
    sResult,        \* search.js: what searchTransactions / sortTransactions returned
    sortBy,         \* search.js: the sortBy argument of sortTransactions
    sPc             \* search.js: how far the caller has got

storeVars == <<records, durable>>
appVars == <<state, localStorage>>
searchVars == <<sPattern, sCaseSensitive, sTransactions, sRegex, sResult, sortBy, sPc>>
vars == <<records, durable, state, localStorage, now, lastOp,
          sPattern, sCaseSensitive, sTransactions, sRegex, sResult, sortBy, sPc>>

-----------------------------------------------------------------------------
(* JavaScript values and text *)

Str(s) == [t |-> "str", s |-> s, n |-> 0]
Num(n) == [t |-> "num", s |-> <<>>, n |-> n]
NaN == [t |-> "nan", s |-> <<>>, n |-> 0]
Undefined == [t |-> "undef", s |-> <<>>, n |-> 0]
Null == [t |-> "null", s |-> <<>>, n |-> 0]

Digits == {"0", "1", "2", "3", "4", "5", "6", "7", "8", "9"}
DigitSeq == <<"0", "1", "2", "3", "4", "5", "6", "7", "8", "9">>
Uppers == <<"A", "B", "C", "D", "E", "F", "G", "H", "I", "J", "K", "L", "M",
            "N", "O", "P", "Q", "R", "S", "T", "U", "V", "W", "X", "Y", "Z">>
Lowers == <<"a", "b", "c", "d", "e", "f", "g", "h", "i", "j", "k", "l", "m",
            "n", "o", "p", "q", "r", "s", "t", "u", "v", "w", "x", "y", "z">>
UpperSet == {Uppers[i] : i \in 1..26}
LowerSet == {Lowers[i] : i \in 1..26}
Letters == UpperSet \cup LowerSet
WhiteSpace == {" ", "\t"}

DigitVal(c) == (CHOOSE i \in 1..10 : DigitSeq[i] = c) - 1
toLowerCase(c) == IF c \in UpperSet THEN Lowers[CHOOSE i \in 1..26 : Uppers[i] = c] ELSE c
IsWordChar(c) == c \in Letters \cup Digits \cup {"_"}

\* String.prototype.trim
RECURSIVE trimStart(_)
trimStart(s) == IF s /= <<>> /\ Head(s) \in WhiteSpace THEN trimStart(Tail(s)) ELSE s
RECURSIVE trimEnd(_)
trimEnd(s) ==
    IF s /= <<>> /\ s[Len(s)] \in WhiteSpace THEN trimEnd(SubSeq(s, 1, Len(s) - 1)) ELSE s
trim(s) == trimEnd(trimStart(s))

\* s.replace(/\s{2,}/g, ' '): every run of two or more whitespace characters
\* becomes one space; a run of one is kept as it is.
RECURSIVE collapseSpaces(_)
collapseSpaces(s) ==
    IF s = <<>> THEN <<>>
    ELSE IF Head(s) \in WhiteSpace /\ Len(s) >= 2 /\ s[2] \in WhiteSpace
         THEN LET rest == trimStart(s) IN <<" ">> \o collapseSpaces(rest)
         ELSE <<Head(s)>> \o collapseSpaces(Tail(s))

\* Number.prototype.toString for a count of thousandths: no trailing zeros.
RECURSIVE NatToChars(_)
NatToChars(k) ==
    IF k < 10 THEN <<DigitSeq[k + 1]>> ELSE NatToChars(k \div 10) \o <<DigitSeq[(k % 10) + 1]>>
FractionChars(f) ==
    IF f = 0 THEN <<>>
    ELSE IF f % 100 = 0 THEN <<".", DigitSeq[(f \div 100) + 1]>>
    ELSE IF f % 10 = 0 THEN <<".", DigitSeq[(f \div 100) + 1], DigitSeq[((f \div 10) % 10) + 1]>>
    ELSE <<".", DigitSeq[(f \div 100) + 1], DigitSeq[((f \div 10) % 10) + 1], DigitSeq[(f % 10) + 1]>>
NumberToString(n) ==
    LET a == IF n < 0 THEN 0 - n ELSE n
    IN  (IF n < 0 THEN <<"-">> ELSE <<>>) \o NatToChars(a \div 1000) \o FractionChars(a % 1000)

\* String(v) / v.toString()
ToString_(v) ==
    CASE v.t = "str" -> v.s
      [] v.t = "num" -> NumberToString(v.n)
      [] v.t = "nan" -> <<"N", "a", "N">>
      [] v.t = "null" -> <<"n", "u", "l", "l">>
      [] OTHER -> <<"u", "n", "d", "e", "f", "i", "n", "e", "d">>

\* !v : the falsy values
Falsy(v) ==
    \/ v.t \in {"undef", "null", "nan"}
    \/ v.t = "str" /\ v.s = <<>>
    \/ v.t = "num" /\ v.n = 0

\* The value of a run of digits, and of a run of fraction digits in thousandths.
RECURSIVE DigitsValue(_)
DigitsValue(s) == IF s = <<>> THEN 0 ELSE DigitsValue(SubSeq(s, 1, Len(s) - 1)) * 10 + DigitVal(s[Len(s)])
FractionValue(s) ==
    LET d(i) == IF i <= Len(s) THEN DigitVal(s[i]) ELSE 0
    IN  d(1) * 100 + d(2) * 10 + d(3)
AllDigits(s) == \A i \in 1..Len(s) : s[i] \in Digits
IndexOfDot(s) == IF \E i \in 1..Len(s) : s[i] = "." THEN CHOOSE i \in 1..Len(s) : s[i] = "." /\ \A j \in 1..(i - 1) : s[j] /= "." ELSE 0

\* An unsigned decimal literal: digits, or digits "." digits with a digit on
\* at least one side.
IsUnsignedDecimal(s) ==
    LET dot == IndexOfDot(s)
    IN  IF dot = 0 THEN s /= <<>> /\ AllDigits(s)
        ELSE /\ AllDigits(SubSeq(s, 1, dot - 1))
             /\ AllDigits(SubSeq(s, dot + 1, Len(s)))
             /\ Len(s) >= 2
UnsignedValue(s) ==
    LET dot == IndexOfDot(s)
    IN  IF dot = 0 THEN DigitsValue(s) * 1000
        ELSE DigitsValue(SubSeq(s, 1, dot - 1)) * 1000 + FractionValue(SubSeq(s, dot + 1, Len(s)))

\* Number(text): the whole trimmed text must be a decimal literal; "" is 0.
StringToNumber(s) ==
    LET x == trim(s)
        neg == x /= <<>> /\ Head(x) = "-"
        body == IF x /= <<>> /\ Head(x) \in {"-", "+"} THEN Tail(x) ELSE x
    IN  IF x = <<>> THEN Num(0)
        ELSE IF IsUnsignedDecimal(body)
             THEN Num(IF neg THEN 0 - UnsignedValue(body) ELSE UnsignedValue(body))
             ELSE NaN

-----------------------------------------------------------------------------
(* search.js *)

\* new RegExp(pattern, flags) for patterns made of literal characters and
\* groups: a SyntaxError exactly when the parentheses do not balance.
RECURSIVE ParenDepthOk(_, _)
ParenDepthOk(p, depth) ==
    IF p = <<>> THEN depth = 0
    ELSE IF Head(p) = "(" THEN ParenDepthOk(Tail(p), depth + 1)
    ELSE IF Head(p) = ")" THEN depth > 0 /\ ParenDepthOk(Tail(p), depth - 1)
    ELSE ParenDepthOk(Tail(p), depth)
RegExpSyntaxOk(pattern) == ParenDepthOk(pattern, 0)

\* What a pattern of literals and groups matches: its literals in order.
PatternLiteral(pattern) == SelectSeq(pattern, LAMBDA c : c \notin {"(", ")"})

RegExp(pattern, flags) == [t |-> "regexp", source |-> pattern, flags |-> flags, lastIndex |-> 0]

\* compileRegex(pattern, caseSensitive): [threw, value]
compileRegex_NoCatch(pattern, caseSensitive) ==
    IF pattern = <<>> \/ trim(pattern) = <<>>
    THEN [threw |-> FALSE, value |-> Null]
    ELSE LET flags == IF caseSensitive THEN "g" ELSE "gi"
         IN  IF RegExpSyntaxOk(pattern)
             THEN [threw |-> FALSE, value |-> RegExp(pattern, flags)]
             ELSE [threw |-> TRUE, value |-> Undefined]
compileRegex(pattern, caseSensitive) ==
    IF pattern = <<>> \/ trim(pattern) = <<>>
    THEN [threw |-> FALSE, value |-> Null]
    ELSE LET flags == IF caseSensitive THEN "g" ELSE "gi"
         IN  IF RegExpSyntaxOk(pattern)
             THEN [threw |-> FALSE, value |-> RegExp(pattern, flags)]
             ELSE [threw |-> FALSE, value |-> Null]   \* catch (error) { return null }

\* Whether the pattern matches text at the 0-based index i.
MatchesAt(regex, text, i) ==
    LET lit == PatternLiteral(regex.source)
        same(a, b) == IF regex.flags = "gi" THEN toLowerCase(a) = toLowerCase(b) ELSE a = b
    IN  /\ i + Len(lit) <= Len(text)
        /\ \A k \in 1..Len(lit) : same(lit[k], text[i + k])

\* regex.test(text) of a global regex whose lastIndex is `lastIndex`:
\* the search starts at lastIndex; a match leaves lastIndex at its end, a
\* failure leaves it at 0.
RegExpTest(regex, lastIndex, text) ==
    LET starts == {i \in lastIndex..Len(text) : MatchesAt(regex, text, i)}
    IN  IF lastIndex > Len(text) \/ starts = {}
        THEN [result |-> FALSE, lastIndex |-> 0]
        ELSE LET i == CHOOSE j \in starts : \A k \in starts : j <= k
             IN  [result |-> TRUE, lastIndex |-> i + Len(PatternLiteral(regex.source))]

\* The filter callback of searchTransactions for one transaction.
SearchCallback(regex, lastIndex, transaction) ==
    LET r1 == RegExpTest(regex, lastIndex, ToString_(transaction.description))
        r2 == RegExpTest(regex, 0, ToString_(transaction.amount))
        r3 == RegExpTest(regex, 0, ToString_(transaction.category))
        r4 == RegExpTest(regex, 0, ToString_(transaction.date))
    IN  IF r1.result THEN [keep |-> TRUE, lastIndex |-> r1.lastIndex]
        ELSE IF r2.result THEN [keep |-> TRUE, lastIndex |-> r2.lastIndex]
        ELSE IF r3.result THEN [keep |-> TRUE, lastIndex |-> r3.lastIndex]
        ELSE IF r4.result THEN [keep |-> TRUE, lastIndex |-> r4.lastIndex]
        ELSE [keep |-> FALSE, lastIndex |-> 0]

\* transactions.filter(callback), the regex object's lastIndex carried from
\* one transaction to the next: [result, lastIndex].
RECURSIVE SearchFilter(_, _, _)
SearchFilter(transactions, regex, lastIndex) ==
    IF transactions = <<>> THEN [result |-> <<>>, lastIndex |-> lastIndex]
    ELSE LET c == SearchCallback(regex, lastIndex, Head(transactions))
             rest == SearchFilter(Tail(transactions), regex, c.lastIndex)
         IN  [result |-> (IF c.keep THEN <<Head(transactions)>> ELSE <<>>) \o rest.result,
              lastIndex |-> rest.lastIndex]

searchTransactions(transactions, regex) ==
    IF regex = Null THEN [result |-> transactions, lastIndex |-> 0]
    ELSE SearchFilter(transactions, regex, regex.lastIndex)

-----------------------------------------------------------------------------
(* Dates and the clock.  An instant is a count of ticks, TicksPerDay to the  *)
(* day; the calendar has twelve months of 31 days, the days the date pattern *)
(* admits, so that a date text and its instant convert both ways.            *)

TicksPerDay == 2
MonthsPerYear == 12
DaysPerMonth == 31
TicksPerYear == MonthsPerYear * DaysPerMonth * TicksPerDay

\* patterns.date / REGEX_PATTERNS.date: /^\d{4}-(0[1-9]|1[0-2])-(0[1-9]|[12]\d|3[01])$/
DatePatternTest(s) ==
    /\ Len(s) = 10
    /\ \A i \in 1..4 : s[i] \in Digits
    /\ s[5] = "-" /\ s[8] = "-"
    /\ \/ s[6] = "0" /\ s[7] \in Digits \ {"0"}
       \/ s[6] = "1" /\ s[7] \in {"0", "1", "2"}
    /\ \/ s[9] = "0" /\ s[10] \in Digits \ {"0"}
       \/ s[9] \in {"1", "2"} /\ s[10] \in Digits
       \/ s[9] = "3" /\ s[10] \in {"0", "1"}

\* new Date("YYYY-MM-DD").getTime(): midnight of that day.
DateValue(s) ==
    LET y == DigitsValue(SubSeq(s, 1, 4))
        m == DigitsValue(SubSeq(s, 6, 7))
        d == DigitsValue(SubSeq(s, 9, 10))
    IN  ((y * MonthsPerYear + (m - 1)) * DaysPerMonth + (d - 1)) * TicksPerDay

TwoDigits(k) == <<DigitSeq[(k \div 10) + 1], DigitSeq[(k % 10) + 1]>>
\* new Date(t).toISOString().substring(0, 10)
ISODate(t) ==
    LET day == t \div TicksPerDay
        y == day \div (MonthsPerYear * DaysPerMonth)
        m == ((day \div DaysPerMonth) % MonthsPerYear) + 1
        d == (day % DaysPerMonth) + 1
    IN  NatToChars(y) \o <<"-">> \o TwoDigits(m) \o <<"-">> \o TwoDigits(d)

-----------------------------------------------------------------------------
(* SCRIPTS/validators.js *)

MinDescriptionLength == 3
MaxDescriptionLength == 100

\* /^(0|[1-9]\d*)(\.\d{m,2})?$/ with m = minDecimals
AmountPatternTest(s, minDecimals) ==
    LET dot == IndexOfDot(s)
        int == IF dot = 0 THEN s ELSE SubSeq(s, 1, dot - 1)
        frac == IF dot = 0 THEN <<>> ELSE SubSeq(s, dot + 1, Len(s))
    IN  /\ int /= <<>> /\ AllDigits(int)
        /\ int = <<"0">> \/ Head(int) /= "0"
        /\ dot /= 0 => /\ AllDigits(frac)
                       /\ Len(frac) >= minDecimals /\ Len(frac) <= 2

\* /^[A-Za-z]+(?:[ -][A-Za-z]+)*$/
CategoryPatternTest(s) ==
    /\ s /= <<>>
    /\ \A i \in 1..Len(s) : s[i] \in Letters \cup {" ", "-"}
    /\ s[1] \in Letters /\ s[Len(s)] \in Letters
    /\ \A i \in 1..(Len(s) - 1) : s[i] \in Letters \/ s[i + 1] \in Letters

\* validateRecord(record): [ok, errors], errors the set of fields in error
validateRecord(record) ==
    LET desc == collapseSpaces(trim(IF Falsy(record.description) THEN <<>> ELSE ToString_(record.description)))
        errors ==
            (IF desc = <<>> \/ Len(desc) < MinDescriptionLength \/ Len(desc) > MaxDescriptionLength
             THEN {"description"} ELSE {})
            \cup (IF ~AmountPatternTest(ToString_(record.amount), 1) THEN {"amount"} ELSE {})
            \cup (IF ~DatePatternTest(ToString_(record.date)) THEN {"date"} ELSE {})
            \cup (IF ~CategoryPatternTest(IF Falsy(record.category) THEN <<>> ELSE ToString_(record.category))
                  THEN {"category"} ELSE {})
    IN  [ok |-> errors = {}, errors |-> errors]

-----------------------------------------------------------------------------
(* Bounds and inputs *)

MaxRecords == 1     \* create, appendMany and the form add while the store holds fewer

StartDate == <<"2", "0", "2", "5", "-", "0", "9", "-", "2", "9">>
StartTime == DateValue(StartDate)
\* The instants at which a call can be made: midnight and noon of StartDate.
Instants == {StartTime, StartTime + 1}

\* Math.floor(Math.random() * 1000): the draws tried
RandomDraws == {7, 42}

Lunch == <<"L", "u", "n", "c", "h">>
LunchTodayRaw == <<" ", " ", "L", "u", "n", "c", "h", " ", " ", " ", "t", "o", "d", "a", "y", " ">>
Coffee == <<"C", "o", "f", "f", "e", "e">>
CoffeeBeans == <<"c", "o", "f", "f", "e", "e", " ", "b", "e", "a", "n", "s">>
Books == <<"B", "o", "o", "k", "s">>
Food == <<"F", "o", "o", "d">>
FoodRaw == <<" ", "F", "o", "o", "d">>
Food123 == <<"F", "o", "o", "d", "1", "2", "3">>
Other == <<"O", "t", "h", "e", "r">>
Date0930 == <<"2", "0", "2", "5", "-", "0", "9", "-", "3", "0">>
Date1301 == <<"2", "0", "2", "5", "-", "1", "3", "-", "0", "1">>

\* The last call: its name, its ok flag, the fields in error and its error code.
Op(op, ok, errors, error) == [op |-> op, ok |-> ok, errors |-> errors, error |-> error]
NoOp == Op("none", TRUE, {}, "")

\* What a caller passes to create: any of the four fields may be absent.
CreateInputs ==
    { [description |-> Str(Lunch), amount |-> Str(<<"1", "2", ".", "5", "0">>), category |-> Str(Food), date |-> Str(StartDate)],
      [description |-> Str(LunchTodayRaw), amount |-> Str(<<"4", ".", "5">>), category |-> Str(FoodRaw), date |-> Str(Date0930)],
      [description |-> Str(Coffee), amount |-> Str(<<"a", "b", "c">>)],
      [description |-> Str(<<"a", "b">>), amount |-> Str(<<"-", "5">>), category |-> Str(Food123), date |-> Str(Date1301)],
      [description |-> Str(Coffee), amount |-> Str(<<"1", ".", "2", "3", "4">>), category |-> Str(Food), date |-> Str(StartDate)] }

\* What a caller passes to update: the fields to merge over the record.
UpdateInputs ==
    { [description |-> Str(<<"C", "o", "f", "f", "e", "e", " ", " ", "b", "e", "a", "n", "s">>),
       amount |-> Str(<<"1", "2", ".", "5", "0">>)],
      [category |-> Str(Food123)],
      [description |-> Str(<<"a", "b">>), date |-> Str(Date1301)],
      [id |-> "txn_0", createdAt |-> 0] }

\* Records as an import file or a seed carries them.
SeedA == [id |-> "a", description |-> Str(Coffee), amount |-> Num(4500), category |-> Str(Food),
          date |-> Str(StartDate), createdAt |-> StartTime, updatedAt |-> StartTime]
SeedB == [id |-> "b", description |-> Str(<<"a", "b">>), amount |-> Num(0), category |-> Str(Food123),
          date |-> Str(Date1301), createdAt |-> StartTime, updatedAt |-> StartTime]
BulkInputs == {<<>>, <<SeedA>>, <<SeedB>>, <<SeedA, SeedA>>, <<SeedA, SeedB>>}

Get(data, f) == IF f \in DOMAIN data THEN data[f] ELSE Undefined
IdsOf(seq) == {seq[i].id : i \in 1..Len(seq)}
\* array.findIndex(r => r.id === id), 1-based; 0 when there is none
FindIndex(seq, id) ==
    IF id \in IdsOf(seq) THEN CHOOSE i \in 1..Len(seq) : seq[i].id = id /\ \A j \in 1..(i - 1) : seq[j].id /= id
    ELSE 0

-----------------------------------------------------------------------------
(* The storage collaborator of SCRIPTS/state.js: storage.load, storage.save *)
(* and storage.clearAll keep a wholesale copy of the sequence.              *)

storage_save(recs) == recs
storage_load(copy) == copy
storage_clearAll == <<>>

-----------------------------------------------------------------------------
(* SCRIPTS/state.js *)

\* `txn_${Date.now()}${Math.floor(Math.random()*1000)}`
NewRecordId(t, r) == "txn_" \o ToString(t) \o ToString(r)

\* The record create() prepares from its argument.
Prepared(data, t, r) ==
    LET amount == StringToNumber(trim(ToString_(Get(data, "amount"))))
    IN  [id |-> NewRecordId(t, r),
         description |-> Str(collapseSpaces(trim(IF Falsy(Get(data, "description")) THEN <<>>
                                                 ELSE ToString_(Get(data, "description"))))),
         amount |-> IF Falsy(amount) THEN Num(0) ELSE amount,
         category |-> Str(trim(IF Falsy(Get(data, "category")) THEN Other
                               ELSE ToString_(Get(data, "category")))),
         date |-> Str(IF Falsy(Get(data, "date")) THEN ISODate(t) ELSE ToString_(Get(data, "date"))),
         createdAt |-> t,
         updatedAt |-> t]

\* The first three statements of create() for each input, instant and draw:
\* the prepared record and what validateRecord says of it.
CreatePrepared ==
    [data \in CreateInputs, t \in Instants, r \in RandomDraws |->
        [prepared |-> Prepared(data, t, r), validation |-> validateRecord(Prepared(data, t, r))]]

create_PushBeforeValidation(data, r) ==
    LET prepared == CreatePrepared[data, now, r].prepared
        validation == CreatePrepared[data, now, r].validation
    IN  /\ Len(records) < MaxRecords
        /\ records' = Append(records, prepared)
        /\ durable' = storage_save(records')
        /\ lastOp' = Op("create", validation.ok, validation.errors, "")
        /\ UNCHANGED <<now, appVars, searchVars>>
create(data, r) ==
    LET prepared == CreatePrepared[data, now, r].prepared
        validation == CreatePrepared[data, now, r].validation
    IN  IF ~validation.ok
        THEN /\ lastOp' = Op("create", FALSE, validation.errors, "")
             /\ UNCHANGED <<records, durable, now, appVars, searchVars>>
        ELSE /\ Len(records) < MaxRecords
             /\ records' = Append(records, prepared)
             /\ durable' = storage_save(records')
             /\ lastOp' = Op("create", TRUE, {}, "")
             /\ UNCHANGED <<now, appVars, searchVars>>

\* { ...records[idx], ...data, updatedAt: nowIso() } with its description cleaned
Merged(record, data, t) ==
    LET pick(f) == IF f \in DOMAIN data THEN data[f] ELSE record[f]
    IN  [id |-> pick("id"),
         description |-> Str(collapseSpaces(trim(IF Falsy(pick("description")) THEN <<>>
                                                 ELSE ToString_(pick("description"))))),
         amount |-> pick("amount"),
         category |-> pick("category"),
         date |-> pick("date"),
         createdAt |-> pick("createdAt"),
         updatedAt |-> t]

update_StoreBeforeValidation(id, data) ==
    LET idx == FindIndex(records, id)
    IN  IF idx = 0
        THEN /\ lastOp' = Op("update", FALSE, {}, "not_found")
             /\ UNCHANGED <<records, durable, now, appVars, searchVars>>
        ELSE LET merged == Merged(records[idx], data, now)
                 validation == validateRecord(merged)
             IN  /\ records' = [records EXCEPT ![idx] = merged]
                 /\ durable' = IF validation.ok THEN storage_save(records') ELSE durable
                 /\ lastOp' = Op("update", validation.ok, validation.errors, "")
                 /\ UNCHANGED <<now, appVars, searchVars>>
update(id, data) ==
    LET idx == FindIndex(records, id)
    IN  IF idx = 0
        THEN /\ lastOp' = Op("update", FALSE, {}, "not_found")
             /\ UNCHANGED <<records, durable, now, appVars, searchVars>>
        ELSE LET merged == Merged(records[idx], data, now)
                 validation == validateRecord(merged)
             IN  IF ~validation.ok
                 THEN /\ lastOp' = Op("update", FALSE, validation.errors, "")
                      /\ UNCHANGED <<records, durable, now, appVars, searchVars>>
                 ELSE /\ records' = [records EXCEPT ![idx] = merged]
                      /\ durable' = storage_save(records')
                      /\ lastOp' = Op("update", TRUE, {}, "")
                      /\ UNCHANGED <<now, appVars, searchVars>>

remove(id) ==
    /\ records' = SelectSeq(records, LAMBDA r : r.id /= id)
    /\ durable' = storage_save(records')
    /\ lastOp' = Op("remove", Len(records') < Len(records), {}, "")
    /\ UNCHANGED <<now, appVars, searchVars>>

replaceAll(newRecords) ==
    /\ records' = newRecords
    /\ durable' = storage_save(records')
    /\ lastOp' = Op("replaceAll", TRUE, {}, "")
    /\ UNCHANGED <<now, appVars, searchVars>>

appendMany(newRecords) ==
    /\ Len(records) + Len(newRecords) <= MaxRecords
    /\ records' = records \o newRecords
    /\ durable' = storage_save(records')
    /\ lastOp' = Op("appendMany", TRUE, {}, "")
    /\ UNCHANGED <<now, appVars, searchVars>>

clear ==
    /\ records' = <<>>
    /\ durable' = storage_clearAll
    /\ lastOp' = Op("clear", TRUE, {}, "")
    /\ UNCHANGED <<now, appVars, searchVars>>

initWithSeed(seedArray) ==
    /\ IF Len(records) = 0 /\ Len(seedArray) > 0
       THEN /\ records' = seedArray
            /\ durable' = storage_save(records')
       ELSE /\ records' = storage_load(durable)
            /\ UNCHANGED durable
    /\ lastOp' = Op("initWithSeed", TRUE, {}, "")
    /\ UNCHANGED <<now, appVars, searchVars>>

\* Time passes between two calls.
Tick ==
    /\ now + 1 \in Instants
    /\ now' = now + 1
    /\ UNCHANGED <<lastOp, storeVars, appVars, searchVars>>

-----------------------------------------------------------------------------
(* The caller of search.js: compile the pattern once, then search with the *)
(* compiled object, possibly again.                                        *)

MaxSearchLen == 2   \* searchTransactions is given at most this many records

SearchCoffee == [id |-> "s1", description |-> Str(Coffee), amount |-> Num(4500), category |-> Str(Food),
                 date |-> Str(StartDate), createdAt |-> StartTime, updatedAt |-> StartTime]
SearchBeans == [id |-> "s2", description |-> Str(CoffeeBeans), amount |-> Num(12000), category |-> Str(Food),
                date |-> Str(Date0930), createdAt |-> StartTime, updatedAt |-> StartTime]
SearchBooks == [id |-> "s3", description |-> Str(Books), amount |-> Num(45050), category |-> Str(Books),
                date |-> Str(StartDate), createdAt |-> StartTime, updatedAt |-> StartTime]
SearchPool == {SearchCoffee, SearchBeans, SearchBooks}
SearchInputs == UNION {[1..n -> SearchPool] : n \in 0..MaxSearchLen}
SearchPatterns ==
    { <<"c", "o", "f", "f", "e", "e">>,
      <<"o", "o">>,
      <<"(">>,
      <<"c", "o", ")">>,
      <<"(", "c", "o", ")", "f", "f", "e", "e">>,
      <<>>,
      <<" ", " ">>,
      <<"4", "5">>,
      <<"F", "o", "o", "d">>,
      <<"0", "9", "-", "3">> }

IdleSearch ==
    /\ sPattern = <<>> /\ sCaseSensitive = FALSE /\ sTransactions = <<>>
    /\ sRegex = Null /\ sResult = <<>> /\ sortBy = "date-desc" /\ sPc = "idle"

Compile ==
    /\ sPc = "start"
    /\ LET r == compileRegex(sPattern, sCaseSensitive)
       IN  /\ sRegex' = r.value
           /\ sPc' = IF r.threw THEN "threw" ELSE "compiled"
    /\ UNCHANGED <<sPattern, sCaseSensitive, sTransactions, sResult, sortBy, storeVars, appVars, now, lastOp>>

Search ==
    /\ sPc \in {"compiled", "searched"}
    /\ LET out == searchTransactions(sTransactions, sRegex)
       IN  /\ sResult' = out.result
           /\ sRegex' = IF sRegex = Null THEN Null ELSE [sRegex EXCEPT !.lastIndex = out.lastIndex]
    /\ sPc' = IF sPc = "compiled" THEN "searched" ELSE "searchedAgain"
    /\ UNCHANGED <<sPattern, sCaseSensitive, sTransactions, sortBy, storeVars, appVars, now, lastOp>>

-----------------------------------------------------------------------------
(* SCRIPTS/storage.js, second half: the form validators *)

MaxAmount == 999999
PastLimitYears == 10

\* parseFloat(text): the longest leading decimal literal, NaN when there is none
parseFloat(s) ==
    LET x == trimStart(s)
        neg == x /= <<>> /\ Head(x) = "-"
        body == IF x /= <<>> /\ Head(x) \in {"-", "+"} THEN Tail(x) ELSE x
        ends == {p \in 1..Len(body) : IsUnsignedDecimal(SubSeq(body, 1, p))}
    IN  IF ends = {} THEN NaN
        ELSE LET p == CHOOSE q \in ends : \A k \in ends : k <= q
                 v == UnsignedValue(SubSeq(body, 1, p))
             IN  Num(IF neg THEN 0 - v ELSE v)

\* REGEX_PATTERNS.description: /^\S(?:.*\S)?$/
DescriptionPatternTest(s) == s /= <<>> /\ s[1] \notin WhiteSpace /\ s[Len(s)] \notin WhiteSpace

\* REGEX_PATTERNS.duplicateWord: /\b(\w+)\s+\1\b/i
\* A match starts at a word boundary a; \w+ must give back nothing, since
\* \s+ follows it, so the group is the whole word a..e; the copy starts after
\* the whitespace run and ends at a word boundary.
DuplicateWordTest(s) ==
    \E a \in 1..Len(s) :
        /\ IsWordChar(s[a])
        /\ a = 1 \/ ~IsWordChar(s[a - 1])
        /\ LET wordEnds == {k \in a..Len(s) : k = Len(s) \/ ~IsWordChar(s[k + 1])}
               e == CHOOSE k \in wordEnds : \A j \in wordEnds : k <= j
               len == e - a + 1
               pastSpace == {k \in (e + 1)..(Len(s) + 1) : k = Len(s) + 1 \/ s[k] \notin WhiteSpace}
               c == CHOOSE k \in pastSpace : \A j \in pastSpace : k <= j
           IN  /\ c > e + 1
               /\ c + len - 1 <= Len(s)
               /\ \A k \in 0..(len - 1) : toLowerCase(s[c + k]) = toLowerCase(s[a + k])
               /\ c + len > Len(s) \/ ~IsWordChar(s[c + len])

\* Each validator: the error message, "" when the value is valid.
validateDescription(value) ==
    IF Falsy(value) \/ trim(value.s) = <<>> THEN "Description is required"
    ELSE IF value.s /= trim(value.s) THEN "Description cannot have leading or trailing spaces"
    ELSE IF ~DescriptionPatternTest(value.s) THEN "Description cannot have double spaces"
    ELSE IF DuplicateWordTest(value.s) THEN "Description has duplicate words"
    ELSE IF Len(value.s) < MinDescriptionLength THEN "Description must be at least 3 characters"
    ELSE IF Len(value.s) > MaxDescriptionLength THEN "Description must be less than 100 characters"
    ELSE ""

validateAmount(value) ==
    IF Falsy(value) \/ trim(value.s) = <<>> THEN "Amount is required"
    ELSE IF ~AmountPatternTest(value.s, 2) THEN "Amount must be a valid number (e.g., 12.50)"
    ELSE IF parseFloat(value.s).t = "num" /\ parseFloat(value.s).n > MaxAmount * 1000 THEN "Amount is too large"
    ELSE IF parseFloat(value.s) = Num(0) THEN "Amount must be greater than 0"
    ELSE ""

validateDate(value, t) ==
    IF Falsy(value) \/ trim(value.s) = <<>> THEN "Date is required"
    ELSE IF ~DatePatternTest(value.s) THEN "Date must be in YYYY-MM-DD format"
    ELSE IF DateValue(value.s) > t + TicksPerYear THEN "Date cannot be more than 1 year in the future"
    ELSE IF DateValue(value.s) < t - PastLimitYears * TicksPerYear THEN "Date cannot be more than 10 years in the past"
    ELSE ""

validateCategory(value) ==
    IF Falsy(value) \/ trim(value.s) = <<>> THEN "Category is required"
    ELSE IF ~CategoryPatternTest(value.s) THEN "Category can only contain letters, spaces, and hyphens"
    ELSE ""

\* validateTransaction(formData) at the instant t: [isValid, errors]
validateTransaction(formData, t) ==
    LET errors ==
            (IF validateDescription(formData.description) /= "" THEN {"description"} ELSE {})
            \cup (IF validateAmount(formData.amount) /= "" THEN {"amount"} ELSE {})
            \cup (IF validateCategory(formData.category) /= "" THEN {"category"} ELSE {})
            \cup (IF validateDate(formData.date, t) /= "" THEN {"date"} ELSE {})
    IN  [isValid |-> errors = {}, errors |-> errors]

-----------------------------------------------------------------------------
(* SCRIPTS/storage.js, first half: localStorage *)

Absent == [absent |-> TRUE]
\* JSON.stringify of a value: NaN is written as null.
JSONValue(v) == IF v.t = "nan" THEN Null ELSE v
JSONStringify(transactions) ==
    [json |-> [i \in 1..Len(transactions) |->
                  [transactions[i] EXCEPT !.description = JSONValue(@), !.amount = JSONValue(@),
                                          !.category = JSONValue(@), !.date = JSONValue(@)]]]
JSONParse(text) == text.json

loadTransactions(ls) == IF ls.transactions = Absent THEN <<>> ELSE JSONParse(ls.transactions)

\* saveTransactions(transactions): [storage, returned]; setItem throws when
\* the quota is exceeded (writeOk = FALSE) and the catch returns false.
saveTransactions_NoWrite(ls, transactions, writeOk) ==
    [storage |-> ls, returned |-> writeOk]
saveTransactions(ls, transactions, writeOk) ==
    IF writeOk
    THEN [storage |-> [ls EXCEPT !.transactions = JSONStringify(transactions)], returned |-> TRUE]
    ELSE [storage |-> ls, returned |-> FALSE]

DefaultBudgetCap == 500
loadSettings(ls) ==
    IF ls.settings = Absent
    THEN [budgetCap |-> Num(DefaultBudgetCap * 1000),
          currencies |-> [USD |-> Num(1000), EUR |-> Num(850), RWF |-> Num(1300000)]]
    ELSE JSONParse(ls.settings)

\* importFromJSON(jsonString): [null, data]; null when JSON.parse throws, when
\* the value is no array, or when an item lacks a required field
importFromJSON_SkipIncomplete(payload) ==
    IF payload.kind /= "array" THEN [null |-> TRUE, data |-> <<>>]
    ELSE [null |-> FALSE,
          data |-> SelectSeq(payload.items,
                             LAMBDA item : ~(\/ item.id = ""
                                             \/ Falsy(item.description)
                                             \/ item.amount = Undefined
                                             \/ Falsy(item.category)
                                             \/ Falsy(item.date)))]
importFromJSON(payload) ==
    IF payload.kind /= "array" THEN [null |-> TRUE, data |-> <<>>]
    ELSE IF \E i \in 1..Len(payload.items) :
                LET item == payload.items[i]
                IN  \/ item.id = ""
                    \/ Falsy(item.description)
                    \/ item.amount = Undefined
                    \/ Falsy(item.category)
                    \/ Falsy(item.date)
         THEN [null |-> TRUE, data |-> <<>>]
         ELSE [null |-> FALSE, data |-> payload.items]

-----------------------------------------------------------------------------
(* scripts/state.js: the application state *)

NoEditId == ""      \* currentEditId: null

\* Math.random().toString(36).substr(2, 9): the draws tried
RandomSuffixes == {"k3j9x2m1a", "z0q8w7e6r"}

\* `txn_${Date.now()}_${Math.random().toString(36).substr(2, 9)}`
generateId(t, r) == "txn_" \o ToString(t) \o "_" \o r

\* initializeState(), run when a page loads the module
initializeState(ls) ==
    [transactions |-> loadTransactions(ls), settings |-> loadSettings(ls), currentEditId |-> NoEditId]

\* addTransaction(transactionData): [state, storage, returned]
addTransaction(st, ls, transactionData, t, r, writeOk) ==
    LET transaction == [id |-> generateId(t, r),
                        description |-> Str(trim(transactionData.description.s)),
                        amount |-> parseFloat(ToString_(transactionData.amount)),
                        category |-> transactionData.category,
                        date |-> transactionData.date,
                        createdAt |-> t,
                        updatedAt |-> t]
        pushed == Append(st.transactions, transaction)
    IN  [state |-> [st EXCEPT !.transactions = pushed],
         storage |-> saveTransactions(ls, pushed, writeOk).storage,
         returned |-> transaction]

\* updateTransaction(id, updates): [state, storage, found]; returns null
\* (found = FALSE) when no transaction has the id
updateTransaction(st, ls, id, updates, t, writeOk) ==
    LET index == FindIndex(st.transactions, id)
    IN  IF index = 0 THEN [state |-> st, storage |-> ls, found |-> FALSE]
        ELSE LET updated == [st.transactions EXCEPT ![index] =
                                [@ EXCEPT !.description = Str(trim(updates.description.s)),
                                          !.amount = parseFloat(ToString_(updates.amount)),
                                          !.category = updates.category,
                                          !.date = updates.date,
                                          !.updatedAt = t]]
             IN  [state |-> [st EXCEPT !.transactions = updated],
                  storage |-> saveTransactions(ls, updated, writeOk).storage,
                  found |-> TRUE]

\* deleteTransaction(id): [state, storage, returned]
deleteTransaction(st, ls, id, writeOk) ==
    LET index == FindIndex(st.transactions, id)
    IN  IF index = 0 THEN [state |-> st, storage |-> ls, returned |-> FALSE]
        ELSE LET spliced == SubSeq(st.transactions, 1, index - 1)
                                \o SubSeq(st.transactions, index + 1, Len(st.transactions))
             IN  [state |-> [st EXCEPT !.transactions = spliced],
                  storage |-> saveTransactions(ls, spliced, writeOk).storage,
                  returned |-> TRUE]

\* importTransactions(transactions): [state, storage, returned]
importTransactions(st, ls, transactions, writeOk) ==
    [state |-> [st EXCEPT !.transactions = transactions],
     storage |-> saveTransactions(ls, transactions, writeOk).storage,
     returned |-> TRUE]

\* clearAllTransactions(): [state, storage, returned]
clearAllTransactions(st, ls, writeOk) ==
    [state |-> [st EXCEPT !.transactions = <<>>],
     storage |-> saveTransactions(ls, <<>>, writeOk).storage,
     returned |-> TRUE]

-----------------------------------------------------------------------------
(* ui.js: the handlers of the transactions and settings pages *)

\* What the user may have typed into the transaction form.
FormInputs ==
    { [description |-> Str(Lunch), amount |-> Str(<<"1", "2", ".", "5", "0">>), category |-> Str(Food), date |-> Str(StartDate)],
      [description |-> Str(<<"L", "u", "n", "c", "h", " ", " ", "t", "o", "d", "a", "y">>), amount |-> Str(<<"4", "5">>), category |-> Str(Books), date |-> Str(Date0930)],
      [description |-> Str(<<"l", "u", "n", "c", "h", " ", "l", "u", "n", "c", "h">>), amount |-> Str(<<"1", "2", ".", "5">>), category |-> Str(Food123), date |-> Str(Date1301)],
      [description |-> Str(Coffee), amount |-> Str(<<"0">>), category |-> Str(Food), date |-> Str(StartDate)],
      [description |-> Str(Lunch), amount |-> Str(<<"-", "5">>), category |-> Str(Food), date |-> Str(StartDate)] }

\* What the chosen import file may hold.
ItemNoCategory == [SeedA EXCEPT !.id = "c", !.category = Undefined]
ItemNoId == [SeedA EXCEPT !.id = ""]
ItemNoAmount == [SeedA EXCEPT !.id = "d", !.amount = Undefined]
ItemTextAmount == [SeedA EXCEPT !.id = "e", !.amount = Str(<<"4", ".", "5">>)]
ImportPayloads ==
    { [kind |-> "invalid", items |-> <<>>],
      [kind |-> "object", items |-> <<>>],
      [kind |-> "array", items |-> <<>>],
      [kind |-> "array", items |-> <<SeedA>>],
      [kind |-> "array", items |-> <<SeedB>>],
      [kind |-> "array", items |-> <<SeedA, SeedA>>],
      [kind |-> "array", items |-> <<SeedA, ItemNoCategory>>],
      [kind |-> "array", items |-> <<ItemNoId>>],
      [kind |-> "array", items |-> <<ItemNoAmount, SeedA>>],
      [kind |-> "array", items |-> <<ItemTextAmount>>],
      [kind |-> "array", items |-> <<[SeedA EXCEPT !.id = "f", !.amount = Num(0 - 5000)]>>] }

\* The ids a handler can be called with: those on the page, and a stale one.
KnownIds(seq) == IdsOf(seq) \cup {"txn_0"}

\* validateTransaction(formData) for each form content and instant.
FormValidation ==
    [formData \in FormInputs, t \in Instants |-> validateTransaction(formData, t)]

\* handleFormSubmit(e)
handleFormSubmit(formData, r, writeOk) ==
    LET validation == FormValidation[formData, now]
        editId == state.currentEditId
    IN  IF ~validation.isValid
        THEN /\ lastOp' = Op("handleFormSubmit", FALSE, validation.errors, "")
             /\ UNCHANGED <<state, localStorage, now, storeVars, searchVars>>
        ELSE IF editId /= NoEditId
        THEN LET res == updateTransaction(state, localStorage, editId, formData, now, writeOk)
             IN  /\ state' = [res.state EXCEPT !.currentEditId = NoEditId]   \* cancelEdit()
                 /\ localStorage' = res.storage
                 /\ lastOp' = Op("updateTransaction", res.found, {}, "Transaction updated successfully!")
                 /\ UNCHANGED <<now, storeVars, searchVars>>
        ELSE LET res == addTransaction(state, localStorage, formData, now, r, writeOk)
             IN  /\ Len(state.transactions) < MaxRecords
                 /\ state' = res.state
                 /\ localStorage' = res.storage
                 /\ lastOp' = Op("addTransaction", TRUE, {}, "Transaction added successfully!")
                 /\ UNCHANGED <<now, storeVars, searchVars>>

\* window.editTransaction(id)
editTransaction(id) ==
    /\ IF id \in IdsOf(state.transactions)
       THEN state' = [state EXCEPT !.currentEditId = id]
       ELSE UNCHANGED state
    /\ lastOp' = Op("editTransaction", id \in IdsOf(state.transactions), {}, "")
    /\ UNCHANGED <<localStorage, now, storeVars, searchVars>>

\* cancelEdit()
cancelEdit ==
    /\ state' = [state EXCEPT !.currentEditId = NoEditId]
    /\ lastOp' = Op("cancelEdit", TRUE, {}, "")
    /\ UNCHANGED <<localStorage, now, storeVars, searchVars>>

\* window.confirmDelete(id), then the click on its confirm button
confirmDelete(id, writeOk) ==
    LET res == deleteTransaction(state, localStorage, id, writeOk)
    IN  /\ state' = res.state
        /\ localStorage' = res.storage
        /\ lastOp' = Op("deleteTransaction", res.returned, {}, "")
        /\ UNCHANGED <<now, storeVars, searchVars>>

\* the import button: reader.onload
importFile(payload, writeOk) ==
    LET parsed == importFromJSON(payload)
    IN  IF parsed.null
        THEN /\ lastOp' = Op("import", FALSE, {}, "Invalid JSON file. Please check the format.")
             /\ UNCHANGED <<state, localStorage, now, storeVars, searchVars>>
        ELSE LET res == importTransactions(state, localStorage, parsed.data, writeOk)
             IN  /\ state' = res.state
                 /\ localStorage' = res.storage
                 /\ lastOp' = Op("import", TRUE, {}, "Successfully imported")
                 /\ UNCHANGED <<now, storeVars, searchVars>>

\* the confirm button of the clear-data dialog
confirmClear(writeOk) ==
    LET res == clearAllTransactions(state, localStorage, writeOk)
    IN  /\ state' = res.state
        /\ localStorage' = res.storage
        /\ lastOp' = Op("clearAllTransactions", TRUE, {}, "")
        /\ UNCHANGED <<now, storeVars, searchVars>>

\* A page is loaded: the module runs again and reads the state from storage.
pageLoad ==
    /\ state' = initializeState(localStorage)
    /\ lastOp' = Op("initializeState", TRUE, {}, "")
    /\ UNCHANGED <<localStorage, now, storeVars, searchVars>>

-----------------------------------------------------------------------------
(* Specifications *)

EmptyStorage == [transactions |-> Absent, settings |-> Absent]

IdleStore == records = <<>> /\ durable = <<>>
IdleApp == state = initializeState(EmptyStorage) /\ localStorage = EmptyStorage

\* The record store of SCRIPTS/state.js and its callers.
Init ==
    /\ IdleStore /\ IdleApp /\ IdleSearch
    /\ now = StartTime /\ lastOp = NoOp
Next ==
    \/ \E data \in CreateInputs, r \in RandomDraws : create(data, r)
    \/ \E id \in KnownIds(records), data \in UpdateInputs : update(id, data)
    \/ \E id \in KnownIds(records) : remove(id)
    \/ \E newRecords \in BulkInputs : replaceAll(newRecords)
    \/ \E newRecords \in BulkInputs : appendMany(newRecords)
    \/ clear
    \/ \E seedArray \in BulkInputs : initWithSeed(seedArray)
    \/ Tick
Spec == Init /\ [][Next]_vars

\* The application: scripts/state.js driven by the handlers of ui.js, every
\* write to localStorage succeeding.
NextApp ==
    \/ \E formData \in FormInputs, r \in RandomSuffixes : handleFormSubmit(formData, r, TRUE)
    \/ \E id \in KnownIds(state.transactions) : editTransaction(id)
    \/ cancelEdit
    \/ \E id \in KnownIds(state.transactions) : confirmDelete(id, TRUE)
    \/ \E payload \in ImportPayloads : importFile(payload, TRUE)
    \/ confirmClear(TRUE)
    \/ pageLoad
    \/ Tick
SpecApp == Init /\ [][NextApp]_vars

\* search.js called on every input: a pattern, a flag and a record sequence.
InitSearch ==
    /\ IdleStore /\ IdleApp
    /\ now = StartTime /\ lastOp = NoOp
    /\ sPattern \in SearchPatterns
    /\ sCaseSensitive \in BOOLEAN
    /\ sTransactions \in SearchInputs
    /\ sRegex = Null /\ sResult = <<>> /\ sortBy = "date-desc" /\ sPc = "start"
NextSearch == Compile \/ Search
SpecSearch == InitSearch /\ [][NextSearch]_vars

-----------------------------------------------------------------------------
(* Search: compileRegex and searchTransactions *)

\* Whether the pattern matches one of the four fields of a record, each field
\* tested from its start.
MatchesRecord(regex, transaction) ==
    \/ RegExpTest(regex, 0, ToString_(transaction.description)).result
    \/ RegExpTest(regex, 0, ToString_(transaction.amount)).result
    \/ RegExpTest(regex, 0, ToString_(transaction.category)).result
    \/ RegExpTest(regex, 0, ToString_(transaction.date)).result
Searched == sPc \in {"searched", "searchedAgain"}
BlankPattern == sPattern = <<>> \/ trim(sPattern) = <<>>

\* C1: for every record sequence and every compiled pattern, searchTransactions
\* returns exactly the records, in input order, that the pattern matches in
\* description, amount as text, category or date, each record judged on its
\* own with the match cursor at 0.
C1_SearchReturnsEveryMatch ==
    (Searched /\ sRegex /= Null) =>
        sResult = SelectSeq(sTransactions, LAMBDA t : MatchesRecord(sRegex, t))

\* C2: compileRegex returns without throwing for every pattern; for a blank or
\* an invalid pattern it returns null; and searchTransactions with null returns
\* the whole input sequence in its order.
C2_InvalidPatternShowsAll ==
    /\ sPc /= "threw"
    /\ (sPc /= "start" /\ (BlankPattern \/ ~RegExpSyntaxOk(sPattern))) => sRegex = Null
    /\ (Searched /\ sRegex = Null) => sResult = sTransactions
\* An unbalanced pattern was compiled to null and the search of two or more
\* records returned them all.
C2_Witness ==
    /\ sPc = "searched"
    /\ ~BlankPattern /\ ~RegExpSyntaxOk(sPattern)
    /\ sRegex = Null
    /\ Len(sTransactions) >= 2
    /\ sResult = sTransactions

-----------------------------------------------------------------------------
(* The record store: create, update, remove and the bulk paths *)

\* The form fields a stored record is edited with: each field as text.
FormOf(record) ==
    [description |-> Str(ToString_(record.description)),
     amount |-> Str(ToString_(record.amount)),
     category |-> Str(ToString_(record.category)),
     date |-> Str(ToString_(record.date))]

\* C3: in every reachable state of the store, and at every current date, every
\* record held is accepted by the field rules of validateTransaction.
C3_StoredRecordsPassValidation ==
    \A i \in 1..Len(records) : validateTransaction(FormOf(records[i]), now).isValid

\* C4: in every reachable state of the store no two records have the same id.
C4_IdsAreUnique ==
    \A i, j \in 1..Len(records) : i /= j => records[i].id /= records[j].id

\* C5: whenever the record prepared by create fails validation, create returns
\* a failure carrying the fields in error, and neither the record sequence nor
\* the durable copy changes.
C5_FailedCreateChangesNothing ==
    [][lastOp'.op = "create" =>
          \A data \in CreateInputs, r \in RandomDraws :
              LET validation == validateRecord(CreatePrepared[data, now, r].prepared)
              IN  (create(data, r) /\ ~validation.ok) =>
                      /\ ~lastOp'.ok
                      /\ lastOp'.errors /= {}
                      /\ lastOp'.errors = validation.errors
                      /\ records' = records
                      /\ durable' = durable]_vars
\* A create has just failed on a store that holds records.
C5_Witness ==
    /\ lastOp.op = "create" /\ ~lastOp.ok /\ lastOp.errors /= {}
    /\ Len(records) >= 1
    /\ durable = records

\* What the caller gave, normalized: the description trimmed and its whitespace
\* runs collapsed, the amount as a number, category and date as given.
NormalizedInput(data) ==
    [description |-> Str(collapseSpaces(trim(ToString_(Get(data, "description"))))),
     amount |-> StringToNumber(ToString_(Get(data, "amount"))),
     category |-> Get(data, "category"),
     date |-> Get(data, "date")]

\* C6: after a successful create the sequence is the one before with exactly
\* one record appended, the earlier records unchanged and in order, and the new
\* record's fields equal the normalized input.
C6_CreateAppendsNormalizedInput ==
    [][\A data \in CreateInputs, r \in RandomDraws :
          (create(data, r) /\ lastOp'.ok) =>
              /\ Len(records') = Len(records) + 1
              /\ SubSeq(records', 1, Len(records)) = records
              /\ LET new == records'[Len(records')]
                     given == NormalizedInput(data)
                 IN  /\ new.description = given.description
                     /\ new.amount = given.amount
                     /\ new.category = given.category
                     /\ new.date = given.date]_vars

\* A field that is missing or empty, and an amount that is no well-formed
\* number or is 0.
MissingOrEmpty(v) == v.t \in {"undef", "null"} \/ (v.t = "str" /\ trim(v.s) = <<>>)
BadAmount(v) ==
    \/ MissingOrEmpty(v)
    \/ StringToNumber(ToString_(v)).t /= "num"
    \/ StringToNumber(ToString_(v)) = Num(0)

\* C7: create stores no record for an input whose amount, category or date is
\* missing or empty, or whose amount is no well-formed number or is 0: the call
\* fails with an error for that field and appends nothing.
C7_CreateRejectsMissingFields ==
    [][\A data \in CreateInputs, r \in RandomDraws :
          LET badFields == (IF BadAmount(Get(data, "amount")) THEN {"amount"} ELSE {})
                           \cup (IF MissingOrEmpty(Get(data, "category")) THEN {"category"} ELSE {})
                           \cup (IF MissingOrEmpty(Get(data, "date")) THEN {"date"} ELSE {})
          IN  (create(data, r) /\ badFields /= {}) =>
                  /\ ~lastOp'.ok
                  /\ badFields \subseteq lastOp'.errors
                  /\ records' = records]_vars

\* C8: a failed update leaves the store unchanged: an id not in the store gives
\* a not-found failure, a merged record that fails validation gives the fields
\* in error, and in both cases the record sequence and the durable copy are
\* the same before and after the call.
C8_FailedUpdateChangesNothing ==
    [][lastOp'.op = "update" =>
          \A id \in KnownIds(records), data \in UpdateInputs :
              update(id, data) =>
                  LET idx == FindIndex(records, id)
                      validation == validateRecord(Merged(records[idx], data, now))
                  IN  /\ idx = 0 =>
                             /\ lastOp' = Op("update", FALSE, {}, "not_found")
                             /\ records' = records /\ durable' = durable
                      /\ (idx /= 0 /\ ~validation.ok) =>
                             /\ ~lastOp'.ok
                             /\ lastOp'.errors /= {}
                             /\ lastOp'.errors = validation.errors
                             /\ records' = records /\ durable' = durable]_vars
\* An update of a record of a two-record store has just failed validation.
C8_Witness ==
    /\ lastOp.op = "update" /\ ~lastOp.ok /\ lastOp.errors /= {}
    /\ Len(records) = 2
    /\ durable = records

\* C9: after a successful update, whatever fields were supplied, the sequence
\* of ids is the one before the call, every record other than the target is
\* unchanged, and the target keeps its createdAt while its updatedAt is the
\* instant of the call.
C9_UpdateKeepsIdsAndCreatedAt ==
    [][\A id \in KnownIds(records), data \in UpdateInputs :
          (update(id, data) /\ lastOp'.ok) =>
              LET idx == FindIndex(records, id)
              IN  /\ Len(records') = Len(records)
                  /\ \A i \in 1..Len(records) : records'[i].id = records[i].id
                  /\ \A i \in 1..Len(records) : i /= idx => records'[i] = records[i]
                  /\ records'[idx].createdAt = records[idx].createdAt
                  /\ records'[idx].updatedAt = now]_vars

-----------------------------------------------------------------------------
(* The application state: deleteTransaction *)

\* C10: in every reachable state and for every id, of two deleteTransaction
\* calls in a row the first reports success exactly when a transaction with
\* that id was present, and the second reports absence.
C10_SecondDeleteReportsAbsence ==
    \A id \in KnownIds(state.transactions) :
        LET first == deleteTransaction(state, localStorage, id, TRUE)
            second == deleteTransaction(first.state, first.storage, id, TRUE)
        IN  /\ first.returned = (id \in IdsOf(state.transactions))
            /\ ~second.returned

-----------------------------------------------------------------------------
(* list(): all() of SCRIPTS/state.js, getTransactions() of scripts/state.js *)

\* all(): [...records], a new array whose elements are the store's own record
\* objects; an element is given here as the reference to its object, the
\* position of the object in records.
all == [i \in 1..Len(records) |-> [ref |-> i]]

\* What a caller may do to the array it got.
ListChanges == {"push", "pop", "reverse", "assign"}

\* A caller takes all() and changes it: push, pop and reverse act on the new
\* array only; listed[i].description = 'Books' assigns to the object that the
\* element refers to.
changeListed(change, i) ==
    LET listed == all
    IN  /\ IF change = "assign" THEN i \in 1..Len(listed) ELSE i = 0
        /\ records' = IF change = "assign"
                      THEN [records EXCEPT ![listed[i].ref].description = Str(Books)]
                      ELSE records
        /\ lastOp' = Op("all", TRUE, {}, "")
        /\ UNCHANGED <<durable, now, appVars, searchVars>>

\* The record store with a caller that changes the arrays all() returns.
NextList ==
    \/ \E data \in CreateInputs, r \in RandomDraws : create(data, r)
    \/ \E newRecords \in BulkInputs : replaceAll(newRecords)
    \/ \E id \in KnownIds(records) : remove(id)
    \/ \E change \in ListChanges, i \in 0..Len(records) : changeListed(change, i)
    \/ Tick
SpecList == Init /\ [][NextList]_vars

\* C11: no change a caller makes to the value all() returned (adding, removing
\* or reordering elements, assigning to a field of a returned record) changes
\* what a later all() returns or what the store persists.
C11_ListedCopyIsIndependent ==
    [][\A change \in ListChanges, i \in 0..Len(records) :
          changeListed(change, i) => (records' = records /\ durable' = durable)]_vars

-----------------------------------------------------------------------------
(* The form round trip: handleFormSubmit, addTransaction, editTransaction *)

\* C12: for every form content that validateTransaction accepts, the record
\* addTransaction stores, loaded back into the form by editTransaction (each
\* field rendered from its stored value) and submitted unchanged, is accepted
\* by validateTransaction again.
C12_StoredRecordRevalidates ==
    [][(lastOp'.op = "addTransaction" /\ Len(state'.transactions) = Len(state.transactions) + 1) =>
          validateTransaction(FormOf(state'.transactions[Len(state'.transactions)]), now).isValid]_vars

-----------------------------------------------------------------------------
(* The amount of a stored record *)

\* C13: in every state reached by create and update calls whose amount is
\* given as text, the amount of every stored record is a number, never a
\* string.
C13_StoredAmountIsNumber ==
    \A i \in 1..Len(records) : records[i].amount.t = "num"

-----------------------------------------------------------------------------
(* The durable copy of the application state *)

\* C14: provided storage writes succeed, after each mutator (add, update,
\* delete, import, clear) returns, the 'transactions' value of localStorage
\* parses to exactly the in-memory sequence, so that initializing the state
\* from storage between operations gives the same sequence.
C14_DurableMirrorsState ==
    /\ loadTransactions(localStorage) = state.transactions
    /\ initializeState(localStorage).transactions = state.transactions
\* An edit has just been saved and storage holds the transactions.
C14_Witness ==
    /\ lastOp.op = "updateTransaction" /\ lastOp.ok
    /\ Len(state.transactions) >= 1
    /\ localStorage.transactions /= Absent
    /\ loadTransactions(localStorage) = state.transactions

-----------------------------------------------------------------------------
(* Failing writes: localStorage.setItem throws when the quota is exceeded *)

\* The application with writes to localStorage that may fail.
NextAppQuota ==
    \/ \E formData \in FormInputs, r \in RandomSuffixes, writeOk \in BOOLEAN :
           handleFormSubmit(formData, r, writeOk)
    \/ \E id \in KnownIds(state.transactions) : editTransaction(id)
    \/ cancelEdit
    \/ \E id \in KnownIds(state.transactions), writeOk \in BOOLEAN : confirmDelete(id, writeOk)
    \/ \E payload \in ImportPayloads, writeOk \in BOOLEAN : importFile(payload, writeOk)
    \/ \E writeOk \in BOOLEAN : confirmClear(writeOk)
    \/ pageLoad
    \/ Tick
SpecAppQuota == Init /\ [][NextAppQuota]_vars

\* What the form announces after a save.
SavedMessages == {"Transaction added successfully!", "Transaction updated successfully!"}

\* C15: when the durable write fails during an add or an update, the failure
\* is reported: the form does not announce that the transaction was saved.
C15_WriteFailureIsReported ==
    [][\A formData \in FormInputs, r \in RandomSuffixes :
          (/\ handleFormSubmit(formData, r, FALSE)
           /\ FormValidation[formData, now].isValid
           /\ state.currentEditId \in {NoEditId} \cup IdsOf(state.transactions)) =>
              lastOp'.error \notin SavedMessages]_vars

-----------------------------------------------------------------------------
(* Import *)

\* A value that is absent or the empty text.
LacksValue(v) == v.t \in {"undef", "null"} \/ (v.t = "str" /\ v.s = <<>>)
\* A payload that is no array, or one of whose elements lacks a non-empty id,
\* a non-empty description, a defined amount, a non-empty category or a
\* non-empty date.
MalformedPayload(payload) ==
    \/ payload.kind /= "array"
    \/ \E i \in 1..Len(payload.items) :
           \/ payload.items[i].id = ""
           \/ LacksValue(payload.items[i].description)
           \/ payload.items[i].amount.t = "undef"
           \/ LacksValue(payload.items[i].category)
           \/ LacksValue(payload.items[i].date)

\* C16: import is all-or-nothing: a malformed payload is refused and the
\* transactions and their durable copy stay as they were; any other payload
\* becomes the whole sequence, replacing every earlier transaction.
C16_ImportIsAllOrNothing ==
    [][lastOp'.op = "import" =>
          \A payload \in ImportPayloads :
              importFile(payload, TRUE) =>
                  IF MalformedPayload(payload)
                  THEN /\ importFromJSON(payload).null
                       /\ ~lastOp'.ok
                       /\ state' = state /\ localStorage' = localStorage
                  ELSE /\ lastOp'.ok
                       /\ state'.transactions = payload.items
                       /\ loadTransactions(localStorage') = payload.items]_vars
\* An import has just been refused while the application held transactions.
C16_Witness ==
    /\ lastOp.op = "import" /\ ~lastOp.ok
    /\ Len(state.transactions) >= 1
    /\ loadTransactions(localStorage) = state.transactions

-----------------------------------------------------------------------------
(* Export and import *)

\* exportToJSON(transactions): JSON.stringify(transactions, null, 2), the text
\* of an array
exportToJSON(transactions) == [kind |-> "array", items |-> JSONStringify(transactions).json]
\* exportJson(): JSON.stringify(records, null, 2)
exportJson == [kind |-> "array", items |-> JSONStringify(records).json]

\* update may be given any field of a record, the id among them.
UpdateFieldInputs == UpdateInputs \cup {[id |-> ""]}

\* The record store under create, update and remove.
NextExport ==
    \/ \E data \in CreateInputs, r \in RandomDraws : create(data, r)
    \/ \E id \in KnownIds(records), data \in UpdateFieldInputs : update(id, data)
    \/ \E id \in KnownIds(records) : remove(id)
    \/ Tick
SpecExport == Init /\ [][NextExport]_vars

\* C17: for every record sequence reached by create, update and remove, the
\* export of the sequence is accepted by importFromJSON and gives back a
\* sequence equal to it, record for record and in the same order.
C17_ExportImportRoundTrip ==
    /\ exportJson = exportToJSON(records)
    /\ ~importFromJSON(exportJson).null
    /\ importFromJSON(exportJson).data = records

-----------------------------------------------------------------------------
(* scripts/state.js: calculateStats *)

\* Number(v), the conversion the arithmetic operators apply
ToNumber(v) ==
    CASE v.t = "num" -> v
      [] v.t = "str" -> StringToNumber(v.s)
      [] v.t = "null" -> Num(0)
      [] OTHER -> NaN

\* a + b: text as soon as one side is text, else the sum of the numbers
Plus(a, b) ==
    IF a.t = "str" \/ b.t = "str" THEN Str(ToString_(a) \o ToString_(b))
    ELSE IF ToNumber(a).t = "nan" \/ ToNumber(b).t = "nan" THEN NaN
    ELSE Num(ToNumber(a).n + ToNumber(b).n)

\* a - b
Minus(a, b) ==
    IF ToNumber(a).t = "nan" \/ ToNumber(b).t = "nan" THEN NaN
    ELSE Num(ToNumber(a).n - ToNumber(b).n)

\* a > b: texts compare by code units (those of the characters number texts
\* are made of, in order), anything else as numbers
GreaterThan(a, b) ==
    LET NumberChars == <<"-", ".", "0", "1", "2", "3", "4", "5", "6", "7", "8", "9">>
        CharRank(c) == CHOOSE i \in 1..Len(NumberChars) : NumberChars[i] = c
        RECURSIVE TextGreater(_, _)
        TextGreater(x, y) ==
            IF x = <<>> THEN FALSE
            ELSE IF y = <<>> THEN TRUE
            ELSE IF Head(x) = Head(y) THEN TextGreater(Tail(x), Tail(y))
            ELSE CharRank(Head(x)) > CharRank(Head(y))
    IN  IF a.t = "str" /\ b.t = "str" THEN TextGreater(a.s, b.s)
        ELSE /\ ToNumber(a).t = "num" /\ ToNumber(b).t = "num"
             /\ ToNumber(a).n > ToNumber(b).n

\* transactions.reduce((sum, t) => sum + t.amount, start)
RECURSIVE SumAmounts(_, _)
SumAmounts(transactions, sum) ==
    IF transactions = <<>> THEN sum
    ELSE SumAmounts(Tail(transactions), Plus(sum, Head(transactions).amount))

\* The forEach that fills categoryTotals: the entries in insertion order.
RECURSIVE CategoryTotals(_, _)
CategoryTotals(transactions, totals) ==
    IF transactions = <<>> THEN totals
    ELSE LET t == Head(transactions)
             key == ToString_(t.category)
             at == {i \in 1..Len(totals) : totals[i].category = key}
             next == IF at = {}
                     THEN Append(totals, [category |-> key, total |-> Plus(Num(0), t.amount)])
                     ELSE LET i == CHOOSE j \in at : TRUE
                              held == IF Falsy(totals[i].total) THEN Num(0) ELSE totals[i].total
                          IN  [totals EXCEPT ![i].total = Plus(held, t.amount)]
         IN  CategoryTotals(Tail(transactions), next)

NoneCategory == <<"N", "o", "n", "e">>
\* The loop over Object.entries(categoryTotals): [topCategory, maxAmount]
RECURSIVE TopCategory(_, _, _)
TopCategory(entries, topCategory, maxAmount) ==
    IF entries = <<>> THEN topCategory
    ELSE IF GreaterThan(Head(entries).total, maxAmount)
         THEN TopCategory(Tail(entries), Head(entries).category, Head(entries).total)
         ELSE TopCategory(Tail(entries), topCategory, maxAmount)

DaysBack == 7
FullPercent == 100
\* calculateStats() at the instant t
calculateStats(st, t) ==
    LET transactions == st.transactions
        totalSpent == SumAmounts(transactions, Num(0))
        categoryTotals == CategoryTotals(transactions, <<>>)
        sevenDaysAgo == t - DaysBack * TicksPerDay
        \* new Date(x.date) >= sevenDaysAgo; an unparsable date gives Invalid
        \* Date, which compares false
        recent(x) == /\ DatePatternTest(ToString_(x.date))
                     /\ DateValue(ToString_(x.date)) >= sevenDaysAgo
        budgetCap == st.settings.budgetCap
        spent == ToNumber(totalSpent)
        cap == ToNumber(budgetCap)
        \* Math.min(totalSpent > 0 ? (totalSpent / budgetCap) * 100 : 0, 100):
        \* a quotient below 100 is kept as the fraction n/d, in percent
        percentUsed ==
            IF ~GreaterThan(totalSpent, Num(0)) THEN Num(0)
            ELSE IF cap.t = "nan" THEN NaN
            ELSE IF cap.n = 0 \/ (cap.n > 0 /\ spent.n >= cap.n) THEN Num(FullPercent * 1000)
            ELSE [t |-> "ratio", s |-> <<>>, n |-> spent.n * FullPercent, d |-> cap.n]
    IN  [totalCount |-> Len(transactions),
         totalSpent |-> totalSpent,
         categoryTotals |-> categoryTotals,
         topCategory |-> TopCategory(categoryTotals, NoneCategory, Num(0)),
         last7Days |-> SumAmounts(SelectSeq(transactions, recent), Num(0)),
         budget |-> [cap |-> budgetCap,
                     remaining |-> Minus(budgetCap, totalSpent),
                     percentUsed |-> percentUsed]]

-----------------------------------------------------------------------------
(* C18 *)

\* The plain sum of the amounts, each taken as a number.
RECURSIVE PlainSum(_)
PlainSum(transactions) ==
    IF transactions = <<>> THEN 0
    ELSE (IF ToNumber(Head(transactions).amount).t = "num"
          THEN ToNumber(Head(transactions).amount).n ELSE 0) + PlainSum(Tail(transactions))

\* C18: at every moment the statistics name as top category the category
\* with the largest summed amount (the first seen on a tie), and name "None"
\* exactly when the store holds no record.
C18_TopCategoryIsLargest ==
    LET transactions == state.transactions
        stats == calculateStats(state, now)
        CategorySum(i) ==
            PlainSum(SelectSeq(transactions, LAMBDA x : ToString_(x.category) = ToString_(transactions[i].category)))
        \* the first record of the category with the largest sum, the
        \* earliest-seen such category winning a tie
        FirstMax == CHOOSE i \in 1..Len(transactions) :
                        /\ \A j \in 1..Len(transactions) : CategorySum(j) <= CategorySum(i)
                        /\ \A j \in 1..(i - 1) : CategorySum(j) < CategorySum(i)
        AllNumeric == \A i \in 1..Len(transactions) : transactions[i].amount.t = "num"
    IN  /\ (stats.topCategory = NoneCategory) <=> (transactions = <<>>)
        /\ (transactions /= <<>> /\ AllNumeric)
               => stats.topCategory = ToString_(transactions[FirstMax].category)

-----------------------------------------------------------------------------
(* C19 *)

\* C19: at every moment, for a store of numeric amounts, the 7-day spend of
\* the statistics is the sum of the amounts of the records dated from 7 days
\* before today (or from 6 days before, the window read as 7 calendar days)
\* up to and including today: a record dated after today, or 8 or more days
\* before today, never contributes, whatever the time of day.
C19_Last7DaysIsTrailingWindow ==
    LET transactions == state.transactions
        stats == calculateStats(state, now)
        today == DateValue(ISODate(now))
        Within(days) ==
            SelectSeq(transactions,
                      LAMBDA x : /\ DatePatternTest(ToString_(x.date))
                                 /\ DateValue(ToString_(x.date)) >= today - days * TicksPerDay
                                 /\ DateValue(ToString_(x.date)) <= today)
    IN  (\A i \in 1..Len(transactions) : transactions[i].amount.t = "num")
            => stats.last7Days \in {Num(PlainSum(Within(DaysBack))), Num(PlainSum(Within(DaysBack - 1)))}

-----------------------------------------------------------------------------
(* C20 *)

\* C20: at every moment the statistics report the number of records, the
\* plain sum of their amounts, category sums that add up to that sum, and the
\* cap minus that sum; for the empty store 0, 0, no category and the cap.
C20_TotalsMatchStore ==
    LET transactions == state.transactions
        stats == calculateStats(state, now)
        cap == state.settings.budgetCap
        totals == [i \in 1..Len(stats.categoryTotals) |-> [amount |-> stats.categoryTotals[i].total]]
    IN  /\ stats.totalCount = Len(transactions)
        /\ stats.totalSpent = Num(PlainSum(transactions))
        /\ Num(PlainSum(totals)) = stats.totalSpent
        /\ stats.budget.remaining = Num(cap.n - PlainSum(transactions))
        /\ transactions = <<>> =>
               /\ stats.totalCount = 0 /\ stats.totalSpent = Num(0)
               /\ stats.categoryTotals = <<>> /\ stats.budget.remaining = cap

-----------------------------------------------------------------------------
(* C21 *)

\* C21: at every moment, for a store of numeric amounts and a positive cap,
\* the statistics report as percentUsed the ratio totalSpent / cap x 100, or
\* 100 when the ratio exceeds 100, also when totalSpent is zero or negative,
\* and report remaining = cap - totalSpent unclamped.
C21_PercentUsedIsClampedRatio ==
    LET transactions == state.transactions
        stats == calculateStats(state, now)
        cap == state.settings.budgetCap
        spent == PlainSum(transactions)
        ratio == IF spent >= cap.n THEN Num(FullPercent * 1000)
                 ELSE IF spent = 0 THEN Num(0)
                 ELSE [t |-> "ratio", s |-> <<>>, n |-> spent * FullPercent, d |-> cap.n]
    IN  ((\A i \in 1..Len(transactions) : transactions[i].amount.t = "num") /\ cap.t = "num" /\ cap.n > 0)
            => /\ stats.budget.percentUsed = ratio
               /\ stats.budget.remaining = Num(cap.n - spent)

-----------------------------------------------------------------------------
(* search.js: sortTransactions *)

\* The switch of sortTransactions: the copy after sorted.sort(comparator).
\* Array.prototype.sort is stable and takes a comparator result of NaN as 0.
SortedCopy(transactions, key) ==
    LET \* the collation weight of a character: blanks, punctuation, digits,
        \* then letters whatever their case
        Weight(c) ==
            IF c \in LowerSet THEN 20 + (CHOOSE i \in 1..26 : Lowers[i] = c)
            ELSE IF c \in UpperSet THEN 20 + (CHOOSE i \in 1..26 : Uppers[i] = c)
            ELSE IF c \in Digits THEN 10 + DigitVal(c)
            ELSE IF c \in WhiteSpace THEN 1
            ELSE 2
        RECURSIVE ByWeight(_, _)
        ByWeight(x, y) ==
            IF x = <<>> /\ y = <<>> THEN 0
            ELSE IF x = <<>> THEN 0 - 1
            ELSE IF y = <<>> THEN 1
            ELSE IF Weight(Head(x)) < Weight(Head(y)) THEN 0 - 1
            ELSE IF Weight(Head(x)) > Weight(Head(y)) THEN 1
            ELSE ByWeight(Tail(x), Tail(y))
        \* texts of equal weights: at the first difference the lower-case
        \* letter comes first
        RECURSIVE ByCase(_, _)
        ByCase(x, y) ==
            IF x = <<>> \/ y = <<>> THEN 0
            ELSE IF Head(x) = Head(y) THEN ByCase(Tail(x), Tail(y))
            ELSE IF Head(x) \in LowerSet THEN 0 - 1 ELSE 1
        \* x.localeCompare(y)
        localeCompare(x, y) == IF ByWeight(x, y) /= 0 THEN ByWeight(x, y) ELSE ByCase(x, y)
        \* new Date(text) - new Date(text), NaN for an unparsable date
        DateOf(v) == IF DatePatternTest(ToString_(v)) THEN Num(DateValue(ToString_(v))) ELSE NaN
        Sign(v) == IF v.t = "nan" \/ v.n = 0 THEN 0 ELSE IF v.n < 0 THEN 0 - 1 ELSE 1
        comparator(a, b) ==
            CASE key = "date-asc" -> Sign(Minus(DateOf(a.date), DateOf(b.date)))
              [] key = "amount-desc" -> Sign(Minus(b.amount, a.amount))
              [] key = "amount-asc" -> Sign(Minus(a.amount, b.amount))
              [] key = "description-asc" -> localeCompare(a.description.s, b.description.s)
              [] key = "description-desc" -> localeCompare(b.description.s, a.description.s)
              [] OTHER -> Sign(Minus(DateOf(b.date), DateOf(a.date)))
        \* x goes behind the last element that does not come after it
        Insert(sorted, x) ==
            LET behind == {k \in 1..Len(sorted) : comparator(sorted[k], x) <= 0}
                at == IF behind = {} THEN 0 ELSE CHOOSE k \in behind : \A j \in behind : j <= k
            IN  SubSeq(sorted, 1, at) \o <<x>> \o SubSeq(sorted, at + 1, Len(sorted))
        RECURSIVE Sort(_)
        Sort(seq) ==
            IF seq = <<>> THEN <<>>
            ELSE Insert(Sort(SubSeq(seq, 1, Len(seq) - 1)), seq[Len(seq)])
    IN  Sort(transactions)

\* sortTransactions(transactions, sortBy): the caller's array after the call
\* and the array returned.
sortTransactions_InPlace(transactions, key) ==
    [transactions |-> SortedCopy(transactions, key), sorted |-> SortedCopy(transactions, key)]
sortTransactions(transactions, key) ==
    [transactions |-> transactions, sorted |-> SortedCopy(transactions, key)]

\* The sort keys of the switch, and two it does not know.
SortKeys == {"date-desc", "date-asc", "amount-desc", "amount-asc",
             "description-asc", "description-desc", "newest", ""}
\* Records a caller may hand to sortTransactions, with equal and different
\* dates, amounts and descriptions.
SortPool ==
    {SearchCoffee, SearchBeans, SearchBooks,
     [SearchCoffee EXCEPT !.id = "s4", !.description = Str(<<"c", "o", "f", "f", "e", "e">>),
                          !.amount = Num(0 - 5000), !.date = Str(<<"2", "0", "2", "4", "-", "1", "2", "-", "3", "1">>)]}
MaxSortLen == 3

\* One call of sortTransactions, on any records and any key.
sortCall ==
    /\ sPc = "start"
    /\ LET out == sortTransactions(sTransactions, sortBy)
       IN  /\ sTransactions' = out.transactions
           /\ sResult' = out.sorted
    /\ sPc' = "sorted"
    /\ UNCHANGED <<sPattern, sCaseSensitive, sRegex, sortBy, storeVars, appVars, now, lastOp>>

InitSort ==
    /\ IdleStore /\ IdleApp
    /\ now = StartTime /\ lastOp = NoOp
    /\ sPattern = <<>> /\ sCaseSensitive = FALSE /\ sRegex = Null
    /\ sTransactions \in UNION {[1..n -> SortPool] : n \in 0..MaxSortLen}
    /\ sortBy \in SortKeys
    /\ sResult = <<>> /\ sPc = "start"
SpecSort == InitSort /\ [][sortCall]_vars

-----------------------------------------------------------------------------
(* C22 *)

\* C22: every call of sortTransactions leaves the caller's sequence as it
\* was and returns a rearrangement of it in which no record comes before one
\* that the key puts ahead of it (later date first for date-desc, and so on),
\* and a key the switch does not know gives what 'date-desc' gives.
C22_SortIsOrderedPermutation ==
    [][sortCall =>
        LET n == Len(sTransactions)
            key == IF sortBy \in {"newest", ""} THEN "date-desc" ELSE sortBy
            \* the place of a character in the alphabet, the case ignored,
            \* a blank before every letter
            Place(c) == IF c \in Letters THEN CHOOSE i \in 1..26 : c \in {Lowers[i], Uppers[i]} ELSE 0
            \* x comes before y in the dictionary, the case ignored
            RECURSIVE Before(_, _)
            Before(x, y) ==
                IF y = <<>> THEN FALSE
                ELSE IF x = <<>> THEN TRUE
                ELSE IF Place(Head(x)) = Place(Head(y)) THEN Before(Tail(x), Tail(y))
                ELSE Place(Head(x)) < Place(Head(y))
            Ahead(a, b) ==
                CASE key = "date-desc" -> DateValue(a.date.s) > DateValue(b.date.s)
                  [] key = "date-asc" -> DateValue(a.date.s) < DateValue(b.date.s)
                  [] key = "amount-desc" -> a.amount.n > b.amount.n
                  [] key = "amount-asc" -> a.amount.n < b.amount.n
                  [] key = "description-asc" -> Before(a.description.s, b.description.s)
                  [] OTHER -> Before(b.description.s, a.description.s)
        IN  /\ sTransactions' = sTransactions
            /\ Len(sResult') = n
            /\ \E p \in [1..n -> 1..n] :
                   /\ \A i, j \in 1..n : i /= j => p[i] /= p[j]
                   /\ \A i \in 1..n : sResult'[i] = sTransactions[p[i]]
            /\ \A i, j \in 1..n : i < j => ~Ahead(sResult'[j], sResult'[i])
            /\ sResult' = sortTransactions(sTransactions, "date-desc").sorted
                   \/ sortBy \in SortKeys \ {"newest", ""}]_vars
C22_Witness ==
    /\ sPc = "sorted" /\ sortBy = "amount-asc" /\ Len(sResult) = 3
    /\ sResult /= sTransactions
    /\ sResult[1].amount.n < sResult[2].amount.n /\ sResult[2].amount.n = sResult[3].amount.n

-----------------------------------------------------------------------------
(* C23 *)

\* C23: whenever the form is submitted, validateDescription accepts the
\* description typed exactly when it is non-empty, has no blank at either
\* end, no two blanks in a row, no word followed by blanks and the same word
\* again, and between 3 and 100 characters.
C23_DescriptionRules ==
    [][\A formData \in FormInputs, r \in RandomSuffixes :
          handleFormSubmit(formData, r, TRUE) =>
              LET s == formData.description.s
                  rules == /\ s /= <<>>
                           /\ s[1] \notin WhiteSpace /\ s[Len(s)] \notin WhiteSpace
                           /\ \A i \in 1..(Len(s) - 1) : ~(s[i] = " " /\ s[i + 1] = " ")
                           /\ ~DuplicateWordTest(s)
                           /\ Len(s) >= MinDescriptionLength /\ Len(s) <= MaxDescriptionLength
              IN  (validateDescription(formData.description) = "") <=> rules]_vars

-----------------------------------------------------------------------------
(* C24 *)

\* C24: whenever create runs validateRecord on the record it prepared, the
\* amount is accepted exactly when its text is a digit sequence without a
\* superfluous leading zero, optionally followed by a point and exactly two
\* digits, and its value is not zero and at most 999,999.
C24_AmountRule ==
    [][\A data \in CreateInputs, r \in RandomDraws :
          create(data, r) =>
              LET text == ToString_(CreatePrepared[data, now, r].prepared.amount)
                  rule == /\ AmountPatternTest(text, 2)
                          /\ UnsignedValue(text) /= 0
                          /\ UnsignedValue(text) <= MaxAmount * 1000
              IN  ("amount" \notin CreatePrepared[data, now, r].validation.errors) <=> rule]_vars

-----------------------------------------------------------------------------
(* C25 *)

\* C25: whenever the add form is submitted with a negative amount (a minus
\* sign before a well-formed amount) and a valid description, category and
\* date, the transaction is accepted and stored with that amount.
C25_NegativeAmountIsAccepted ==
    [][\A formData \in FormInputs, r \in RandomSuffixes :
          (/\ handleFormSubmit(formData, r, TRUE)
           /\ state.currentEditId = NoEditId
           /\ Head(formData.amount.s) = "-" /\ AmountPatternTest(Tail(formData.amount.s), 2)
           /\ validateDescription(formData.description) = ""
           /\ validateCategory(formData.category) = ""
           /\ validateDate(formData.date, now) = "")
          => /\ lastOp'.op = "addTransaction"
             /\ Len(state'.transactions) = Len(state.transactions) + 1
             /\ state'.transactions[Len(state'.transactions)].amount
                    = Num(0 - UnsignedValue(Tail(formData.amount.s)))]_vars

-----------------------------------------------------------------------------
(* ui.js: the search box, the case checkbox, the sort select and the list *)

\* validateSearchPattern(pattern): the error message, "" when valid
validateSearchPattern(pattern) ==
    IF pattern = <<>> \/ trim(pattern) = <<>> THEN ""
    ELSE IF RegExpSyntaxOk(pattern) THEN ""
    ELSE "Invalid regex pattern. Check your syntax."

\* renderTransactions(): the sequence handed to the table and the cards
renderTransactions(st, pattern, caseSensitive, key) ==
    LET transactions == st.transactions
        regex == IF pattern /= <<>> THEN compileRegex(pattern, caseSensitive).value ELSE Null
        found == IF pattern /= <<>> /\ regex /= Null
                 THEN searchTransactions(transactions, regex).result
                 ELSE transactions
    IN  sortTransactions(found, key).sorted

\* The input listener of the search box
searchInput(pattern) ==
    /\ sPattern' = pattern
    /\ IF validateSearchPattern(pattern) /= ""
       THEN /\ lastOp' = Op("searchInput", FALSE, {}, validateSearchPattern(pattern))
            /\ UNCHANGED sResult
       ELSE /\ lastOp' = Op("searchInput", TRUE, {}, "")
            /\ sResult' = renderTransactions(state, pattern, sCaseSensitive, sortBy)
    /\ UNCHANGED <<sCaseSensitive, sTransactions, sRegex, sortBy, sPc, storeVars, appVars, now>>

\* The change listener of the case-sensitive checkbox
caseSensitiveChange ==
    /\ sCaseSensitive' = ~sCaseSensitive
    /\ sResult' = renderTransactions(state, sPattern, sCaseSensitive', sortBy)
    /\ lastOp' = Op("caseSensitiveChange", TRUE, {}, "")
    /\ UNCHANGED <<sPattern, sTransactions, sRegex, sortBy, sPc, storeVars, appVars, now>>

\* The change listener of the sort select
sortChange(key) ==
    /\ sortBy' = key
    /\ sResult' = renderTransactions(state, sPattern, sCaseSensitive, key)
    /\ lastOp' = Op("sortChange", TRUE, {}, "")
    /\ UNCHANGED <<sPattern, sCaseSensitive, sTransactions, sRegex, sPc, storeVars, appVars, now>>

\* The transactions page once loaded, over any stored records, and the
\* events of its search box, checkbox and sort select.
InitView ==
    /\ IdleStore
    /\ now = StartTime /\ lastOp = NoOp
    /\ \E stored \in SearchInputs :
           /\ localStorage = saveTransactions(EmptyStorage, stored, TRUE).storage
           /\ state = initializeState(localStorage)
    /\ sPattern = <<>> /\ sCaseSensitive = FALSE /\ sortBy = "date-desc"
    /\ sTransactions = <<>> /\ sRegex = Null /\ sPc = "idle"
    /\ sResult = renderTransactions(state, sPattern, sCaseSensitive, sortBy)
NextView ==
    \/ \E pattern \in SearchPatterns : searchInput(pattern)
    \/ caseSensitiveChange
    \/ \E key \in SortKeys \ {"newest", ""} : sortChange(key)
SpecView == InitView /\ [][NextView]_vars

-----------------------------------------------------------------------------
(* C26 *)

\* C26: at every moment at which the search box holds a pattern that does
\* not compile, the list displayed is the full sequence of stored records
\* (in the order of the chosen sort key).
C26_InvalidPatternShowsAllRecords ==
    ~RegExpSyntaxOk(sPattern) => sResult = SortedCopy(state.transactions, sortBy)

-----------------------------------------------------------------------------
(* The settings page: SCRIPTS/storage.js validateBudgetCap, scripts/state.js *)
(* updateSettings and the two forms of ui.js                                 *)

MinBudgetCap == 1
MaxBudgetCap == 1000000
\* validateBudgetCap(value): the error message, "" when the value is valid.
\* REGEX_PATTERNS.budgetCap is /^[1-9]\d*(\.\d{2})?$/
validateBudgetCap_NoRange(value) ==
    IF Falsy(value) \/ trim(value.s) = <<>> THEN "Budget cap is required"
    ELSE IF ~(AmountPatternTest(value.s, 2) /\ Head(value.s) /= "0")
    THEN "Budget cap must be a positive number (e.g., 500.00)"
    ELSE ""
validateBudgetCap(value) ==
    IF Falsy(value) \/ trim(value.s) = <<>> THEN "Budget cap is required"
    ELSE IF ~(AmountPatternTest(value.s, 2) /\ Head(value.s) /= "0")
    THEN "Budget cap must be a positive number (e.g., 500.00)"
    ELSE IF parseFloat(value.s).n < MinBudgetCap * 1000 THEN "Budget cap must be at least $1"
    ELSE IF parseFloat(value.s).n > MaxBudgetCap * 1000 THEN "Budget cap is too large"
    ELSE ""

\* updateSettings(newSettings): [state, storage]; saveSettings writes
\* JSON.stringify(state.settings), in which NaN becomes null
updateSettings(st, ls, newSettings, writeOk) ==
    LET settings == [f \in DOMAIN st.settings |->
                        IF f \in DOMAIN newSettings THEN newSettings[f] ELSE st.settings[f]]
        written == [budgetCap |-> JSONValue(settings.budgetCap),
                    currencies |-> [c \in DOMAIN settings.currencies |-> JSONValue(settings.currencies[c])]]
    IN  [state |-> [st EXCEPT !.settings = settings],
         storage |-> IF writeOk THEN [ls EXCEPT !.settings = [json |-> written]] ELSE ls]

\* The submit listener of the budget form
budgetFormSubmit(value, writeOk) ==
    IF validateBudgetCap(value) /= ""
    THEN /\ lastOp' = Op("budgetForm", FALSE, {"budgetCap"}, validateBudgetCap(value))
         /\ UNCHANGED <<state, localStorage, now, storeVars, searchVars>>
    ELSE LET res == updateSettings(state, localStorage, [budgetCap |-> parseFloat(value.s)], writeOk)
         IN  /\ state' = res.state
             /\ localStorage' = res.storage
             /\ lastOp' = Op("budgetForm", TRUE, {}, "Budget cap updated successfully!")
             /\ UNCHANGED <<now, storeVars, searchVars>>

\* The submit listener of the currency form
currencyFormSubmit(eur, rwf, writeOk) ==
    LET newSettings == [currencies |-> [USD |-> Num(1000), EUR |-> parseFloat(eur), RWF |-> parseFloat(rwf)]]
        res == updateSettings(state, localStorage, newSettings, writeOk)
    IN  /\ state' = res.state
        /\ localStorage' = res.storage
        /\ lastOp' = Op("currencyForm", TRUE, {}, "Currency rates updated successfully!")
        /\ UNCHANGED <<now, storeVars, searchVars>>

\* The settings page: its two forms, import and clear-all, and page loads;
\* a write to localStorage may fail.
NextSettings ==
    \/ \E value \in {Str(<<>>), Str(<<"8", "0", "0">>), Str(<<"1">>), Str(<<"0", ".", "5", "0">>),
                     Str(<<"1", "0", "0", "0", "0", "0", "0">>), Str(<<"1", "0", "0", "0", "0", "0", "1">>),
                     Str(<<"1", "0", "0", "0", "0", "0", "0", ".", "5", "0">>), Str(<<"-", "5">>),
                     Str(<<"1", "2", ".", "5">>)},
          writeOk \in BOOLEAN : budgetFormSubmit(value, writeOk)
    \/ \E eur \in {<<"0", ".", "9">>, <<>>}, rwf \in {<<"1", "3", "5", "0">>, <<"-", "1">>},
          writeOk \in BOOLEAN : currencyFormSubmit(eur, rwf, writeOk)
    \/ \E payload \in ImportPayloads : importFile(payload, TRUE)
    \/ confirmClear(TRUE)
    \/ pageLoad
SpecSettings == Init /\ [][NextSettings]_vars

-----------------------------------------------------------------------------
(* C27 *)

\* C27: before and after every step of the settings page the budget cap is a
\* number from 1 to 1,000,000 and the currencies map USD to 1; a budget
\* submit leaves the currencies as they were and a currency submit leaves
\* the budget cap as it was.
C27_SettingsStayValid ==
    [][LET ok(st) == /\ st.settings.budgetCap.t = "num"
                     /\ st.settings.budgetCap.n >= MinBudgetCap * 1000
                     /\ st.settings.budgetCap.n <= MaxBudgetCap * 1000
                     /\ st.settings.currencies.USD = Num(1000)
       IN  /\ ok(state) /\ ok(state')
           /\ lastOp'.op = "budgetForm" => state'.settings.currencies = state.settings.currencies
           /\ lastOp'.op = "currencyForm" => state'.settings.budgetCap = state.settings.budgetCap]_vars
C27_Witness ==
    /\ lastOp.op = "currencyForm"
    /\ state.settings.budgetCap = Num(MaxBudgetCap * 1000)
    /\ state.settings.currencies.EUR = Num(900)
    /\ state.settings.currencies.RWF = Num(0 - 1000)
    /\ localStorage.settings /= Absent

-----------------------------------------------------------------------------
(* C28 *)

\* C28: at every moment currentEditId is null or the id of a record in the
\* store, and the 'Transaction updated successfully!' status has only been
\* shown for a submit that did update a record.
C28_EditIdNamesStoredRecord ==
    /\ state.currentEditId = NoEditId \/ state.currentEditId \in IdsOf(state.transactions)
    /\ lastOp.op = "updateTransaction" => lastOp.ok

-----------------------------------------------------------------------------
(* C29 *)

\* C29: whenever searchTransactions is called a second time with the same
\* regex object and the same records, it returns what the first call
\* returned.
C29_SecondSearchReturnsTheSame ==
    [][(sPc = "searched" /\ Search) => sResult' = sResult]_vars

-----------------------------------------------------------------------------
(* C30 *)

\* C30: whenever remove(id) reports success the record sequence has lost
\* exactly one record, the others staying in their order; whenever it
\* reports failure the sequence is as it was.
C30_RemoveTakesExactlyOne ==
    [][\A id \in KnownIds(records) :
          remove(id) =>
              IF lastOp'.ok
              THEN \E i \in 1..Len(records) :
                       records' = SubSeq(records, 1, i - 1) \o SubSeq(records, i + 1, Len(records))
              ELSE records' = records]_vars

====
